---- MODULE Spec2Model ----
(***************************************************************************)
(* RFM dashboard (src/p.py): percentile cut points, the scoring script     *)
(* pushed down to the store, the segment distribution and the alert rules. *)
(*                                                                         *)
(* The store (Elasticsearch index "ecommerce_customers") is the program's  *)
(* environment.  It is modelled by its contents: a bag of customer         *)
(* documents, the answer it gives to the percentile aggregation and the    *)
(* average rating.  Every handler of the program is a sequence of store    *)
(* queries; each query is one step and each query may raise.               *)
(***************************************************************************)
EXTENDS Bags, FiniteSets, Integers, Sequences, TLC

VARIABLES
    docs,        \* store: bag of customer documents [r, f, m, unsat]
    pct,         \* store: its answer to the percentile aggregation
    avgRating,   \* store: avg of "Average Rating" in hundredths, <<>> if null
    pc,          \* position of the running handler
    caller,      \* "check_alerts" or "dashboard"
    total,       \* check_alerts: total
    avg_rating,  \* check_alerts: avg_rating, in hundredths
    unsat,       \* check_alerts: unsat
    unsat_pct,   \* check_alerts: unsat_pct, a fraction
    alerts,      \* check_alerts: alerts (the titles, in order of appending)
    cut,         \* compute_rfm_segments: pct
    segs,        \* value returned by compute_rfm_segments (absent label = 0)
    err,         \* exception that left the handler, "" if none
    log,         \* queries issued by the running handler, in order
    out_alerts,  \* line 148: alerts = check_alerts(); <<>> until it returns
    prev,        \* distribution shown by the preceding dashboard run
    probe,       \* script run on one document: document and cut set
    scored       \* script run on one document: R, F, M, code, label

vars == <<docs, pct, avgRating, pc, caller, total, avg_rating, unsat, unsat_pct,
          alerts, cut, segs, err, log, out_alerts, prev, probe, scored>>

storeVars == <<docs, pct, avgRating>>
localVars == <<pc, caller, total, avg_rating, unsat, unsat_pct, alerts, cut, segs,
               err, log, out_alerts>>
scriptVars == <<probe, scored>>

\* An optional value: <<>> is JSON null / Python None, <<v>> is the value v.
None == <<>>
Some(v) == <<v>>

-----------------------------------------------------------------------------
(* Bounds *)

\* raw metric values of a scored document are 1..MaxRaw
MaxRaw == 3
\* percentile cut points handed to the script are 1..MaxCut
MaxCut == 2
\* the small stores hold at most MaxDocs documents
MaxDocs == 2
\* the large stores of SpecAlerts hold at most MaxTotal documents
MaxTotal == 20
\* the stores of SpecRace hold at most MaxRaceDocs documents
MaxRaceDocs == 2

-----------------------------------------------------------------------------
(* The scoring script, src/p.py lines 71-100 *)

Metrics == {"r", "f", "m"}

\* A cut tuple holds the values for the percents 20, 40, 60, 80 at 1..4.
CutTuples(lo, hi) ==
    {c \in [1..4 -> lo..hi] : \A i \in 1..3 : c[i] <= c[i + 1]}

\* variants of the scoring with < for <=, and with R scored like F and M
RScoreStrict(r, c) ==
    IF r < c[1] THEN 5
    ELSE IF r < c[2] THEN 4
    ELSE IF r < c[3] THEN 3
    ELSE IF r < c[4] THEN 2 ELSE 1
RScoreDirect(r, c) ==
    IF r <= c[1] THEN 1
    ELSE IF r <= c[2] THEN 2
    ELSE IF r <= c[3] THEN 3
    ELSE IF r <= c[4] THEN 4 ELSE 5
\* int R = (r <= c20 ? 5 : r <= c40 ? 4 : r <= c60 ? 3 : r <= c80 ? 2 : 1)
RScore(r, c) ==
    IF r <= c[1] THEN 5
    ELSE IF r <= c[2] THEN 4
    ELSE IF r <= c[3] THEN 3
    ELSE IF r <= c[4] THEN 2 ELSE 1

FScoreStrict(f, c) ==
    IF f < c[1] THEN 1
    ELSE IF f < c[2] THEN 2
    ELSE IF f < c[3] THEN 3
    ELSE IF f < c[4] THEN 4 ELSE 5
\* int F = (f <= c20 ? 1 : f <= c40 ? 2 : f <= c60 ? 3 : f <= c80 ? 4 : 5)
FScore(f, c) ==
    IF f <= c[1] THEN 1
    ELSE IF f <= c[2] THEN 2
    ELSE IF f <= c[3] THEN 3
    ELSE IF f <= c[4] THEN 4 ELSE 5

\* int M = (m <= c20 ? 1 : m <= c40 ? 2 : m <= c60 ? 3 : m <= c80 ? 4 : 5)
MScore(m, c) ==
    IF m <= c[1] THEN 1
    ELSE IF m <= c[2] THEN 2
    ELSE IF m <= c[3] THEN 3
    ELSE IF m <= c[4] THEN 4 ELSE 5

\* int code = R*100 + F*10 + M
Code(R, F, M) == R * 100 + F * 10 + M

Labels == {"Champions", "Loyal Customers", "Frequent Buyers", "Big Spenders",
           "Potential Loyalists", "At Risk", "Hibernating"}

\* variant with the F == 5 rule tried first
ClassifyFrequentFirst(R, F, M) ==
    IF F = 5 THEN "Frequent Buyers"
    ELSE IF Code(R, F, M) >= 544 THEN "Champions"
    ELSE IF R = 5 \/ (R = 4 /\ F >= 4) THEN "Loyal Customers"
    ELSE IF M = 5 THEN "Big Spenders"
    ELSE IF R >= 4 /\ F <= 2 THEN "Potential Loyalists"
    ELSE IF R = 2 THEN "At Risk"
    ELSE "Hibernating"
\* the if / else-if chain of lines 93-99
Classify(R, F, M) ==
    IF Code(R, F, M) >= 544 THEN "Champions"
    ELSE IF R = 5 \/ (R = 4 /\ F >= 4) THEN "Loyal Customers"
    ELSE IF F = 5 THEN "Frequent Buyers"
    ELSE IF M = 5 THEN "Big Spenders"
    ELSE IF R >= 4 /\ F <= 2 THEN "Potential Loyalists"
    ELSE IF R = 2 THEN "At Risk"
    ELSE "Hibernating"

\* The whole script on one document d under the cut set c of numbers.
Script(d, c) ==
    LET R == RScore(d.r, c.r)
        F == FScore(d.f, c.f)
        M == MScore(d.m, c.m)
    IN  [R |-> R, F |-> F, M |-> M, code |-> Code(R, F, M),
         label |-> Classify(R, F, M)]

-----------------------------------------------------------------------------
(* The store's answers, as the helpers of lines 12-63 read them *)

Min(a, b) == IF a <= b THEN a ELSE b

\* The percentile aggregation answers null for every percent when no
\* document carries the field, else one number per percent.
AllNull == [k \in Metrics |-> [i \in 1..4 |-> None]]
Wrap(c) == [k \in Metrics |-> [i \in 1..4 |-> Some(c[k][i])]]
HasNone(p) == \E k \in Metrics : \E i \in 1..4 : p[k][i] = None
Unwrap(p) == [k \in Metrics |-> [i \in 1..4 |-> p[k][i][1]]]

FieldValues(b, k) == {d[k] : d \in BagToSet(b)}
Lowest(S) == CHOOSE x \in S : \A y \in S : x <= y
Highest(S) == CHOOSE x \in S : \A y \in S : x >= y

\* The answers the store may give for the documents b: percentiles are
\* approximate, non-decreasing and within the range of the field.
PctFor(b) ==
    IF b = EmptyBag THEN {AllNull}
    ELSE {Wrap(c) : c \in
            [r : CutTuples(Lowest(FieldValues(b, "r")), Highest(FieldValues(b, "r"))),
             f : CutTuples(Lowest(FieldValues(b, "f")), Highest(FieldValues(b, "f"))),
             m : CutTuples(Lowest(FieldValues(b, "m")), Highest(FieldValues(b, "m")))]}

\* Hits are counted exactly up to this number when the request does not
\* ask for more (the request of line 20 does not).
TrackTotalHits == 10000

\* agg_total_customers, lines 19-22: hits.total is an object with a value
\* counted up to TrackTotalHits, or (older stores) the plain exact count.
agg_total_customers(b) ==
    {Min(BagCardinality(b), TrackTotalHits), BagCardinality(b)}

\* agg_avg_rating, lines 15-17
agg_avg_rating == avgRating

\* agg_unsatisfied_count, lines 24-30
agg_unsatisfied_count(b) ==
    BagCardinality([d \in {x \in BagToSet(b) : x.unsat} |-> b[d]])

\* get_percentiles, lines 53-63
get_percentiles == pct

\* the f-string of lines 71-100 compiles unless a cut point printed as None
ScriptCompiles(c) == ~HasNone(c)

\* number of documents of b the script labels l
Bucket(b, c, l) ==
    BagCardinality([d \in {x \in BagToSet(b) : Script(x, Unwrap(c)).label = l}
                      |-> b[d]])

\* terms aggregation: buckets by count descending, key ascending, first
\* `size` of them; only labels with documents make a bucket.
KeyOrder == <<"At Risk", "Big Spenders", "Champions", "Frequent Buyers",
              "Hibernating", "Loyal Customers", "Potential Loyalists">>
KeyIndex(l) == CHOOSE i \in 1..Len(KeyOrder) : KeyOrder[i] = l
\* "size": 10, line 102
TermsSize == 10
TermsBuckets(b, c) ==
    LET n == [l \in Labels |-> Bucket(b, c, l)]
        before(k, l) == n[k] > n[l] \/ (n[k] = n[l] /\ KeyIndex(k) < KeyIndex(l))
    IN  IF Cardinality({k \in Labels : n[k] > 0}) <= TermsSize
        THEN n
        ELSE [l \in Labels |->
                IF Cardinality({k \in Labels : n[k] > 0 /\ before(k, l)}) < TermsSize
                THEN n[l] ELSE 0]

SumCounts(s) == 
    LET RECURSIVE Sum(_)
        Sum(S) == IF S = {} THEN 0
                  ELSE LET l == CHOOSE x \in S : TRUE IN s[l] + Sum(S \ {l})
    IN Sum(DOMAIN s)

NoSegs == [l \in Labels |-> 0]

-----------------------------------------------------------------------------
(* check_alerts arithmetic, lines 111-124.  Ratings are in hundredths; a   *)
(* percentage n / d * 100 is kept as the fraction (n * 100) / d, which     *)
(* compares with 10 and 15 as the float does.                              *)

Ratio100(n, d) == [raised |-> d = 0, num |-> n * 100, den |-> d]
Zero == [raised |-> FALSE, num |-> 0, den |-> 1]
Gt(x, k) == x.num > k * x.den

\* agg_avg_rating() or 0.0
OrZero(a) == IF a = None \/ a = Some(0) THEN 0 ELSE a[1]

\* unsat_pct = (unsat / total * 100) if total else 0
UnsatPct(u, t) == IF t # 0 THEN Ratio100(u, t) ELSE Zero

\* if avg_rating < 3.5
LowRating(a) == a < 350

\* if unsat_pct > 10
HighUnsat(x) == Gt(x, 10)

\* variants of the third rule: >= for >, and without the test of total
AtRiskRuleAtLeast(a, t) ==
    IF t # 0 THEN [raised |-> FALSE, fire |-> a * 100 >= 15 * t]
    ELSE [raised |-> FALSE, fire |-> FALSE]
AtRiskRuleUnguarded(a, t) ==
    [raised |-> t = 0, fire |-> t # 0 /\ Gt(Ratio100(a, t), 15)]
\* if total and (at_risk / total * 100) > 15
AtRiskRule(a, t) ==
    IF t # 0 THEN [raised |-> FALSE, fire |-> Gt(Ratio100(a, t), 15)]
    ELSE [raised |-> FALSE, fire |-> FALSE]

\* lines 115-119
FirstAlerts(a, x) ==
    (IF LowRating(a) THEN <<"Low average rating">> ELSE <<>>)
    \o (IF HighUnsat(x) THEN <<"High unsatisfied rate">> ELSE <<>>)

\* variant that catches the exception and returns the alerts so far
ReturnPartial(e, partial) == [pc |-> "done", err |-> "", out |-> Some(partial)]
\* An exception leaves the handler: nothing is returned to the caller.
Propagate(e, partial) == [pc |-> "raised", err |-> e, out |-> None]

QueryOrder == <<"total", "avg_rating", "unsatisfied", "percentiles", "segments">>

-----------------------------------------------------------------------------
(* Handlers.  A handler starts when no handler runs (the page script is    *)
(* single-threaded) and issues its queries one step at a time.             *)

\* es_search, lines 12-13: the search returns or raises (no retry, no catch)
Outcomes == {"answered", "RetrievalFailure"}

\* check_alerts line 110: total = agg_total_customers()
check_alerts_total ==
    /\ pc = "idle"
    /\ \E o \in Outcomes : \E t \in agg_total_customers(docs) :
         LET x == Propagate(o, <<>>) IN
         /\ pc' = IF o = "answered" THEN "avg_rating" ELSE x.pc
         /\ err' = IF o = "answered" THEN "" ELSE x.err
         /\ out_alerts' = IF o = "answered" THEN None ELSE x.out
         /\ total' = IF o = "answered" THEN t ELSE 0
    /\ caller' = "check_alerts"
    /\ log' = <<"total">>
    /\ avg_rating' = 0 /\ unsat' = 0 /\ unsat_pct' = Zero /\ alerts' = <<>>
    /\ cut' = AllNull /\ segs' = NoSegs /\ prev' = None
    /\ UNCHANGED <<storeVars, scriptVars>>

\* check_alerts line 111: avg_rating = agg_avg_rating() or 0.0
check_alerts_avg_rating ==
    /\ pc = "avg_rating"
    /\ log' = Append(log, "avg_rating")
    /\ \E o \in Outcomes :
         LET x == Propagate(o, alerts) IN
         /\ pc' = IF o = "answered" THEN "unsatisfied" ELSE x.pc
         /\ err' = IF o = "answered" THEN "" ELSE x.err
         /\ out_alerts' = IF o = "answered" THEN None ELSE x.out
         /\ avg_rating' = IF o = "answered" THEN OrZero(agg_avg_rating) ELSE 0
    /\ UNCHANGED <<storeVars, scriptVars, caller, total, unsat, unsat_pct, alerts,
                   cut, segs, prev>>

\* check_alerts lines 112-119: unsat, unsat_pct and the first two rules
check_alerts_unsatisfied ==
    /\ pc = "unsatisfied"
    /\ log' = Append(log, "unsatisfied")
    /\ \E o \in Outcomes :
         LET u == agg_unsatisfied_count(docs)
             p == UnsatPct(u, total)
             e == IF o # "answered" THEN o
                  ELSE IF p.raised THEN "ZeroDivisionError" ELSE ""
             x == Propagate(e, alerts)
         IN
         /\ pc' = IF e = "" THEN "percentiles" ELSE x.pc
         /\ err' = IF e = "" THEN "" ELSE x.err
         /\ out_alerts' = IF e = "" THEN None ELSE x.out
         /\ unsat' = IF o = "answered" THEN u ELSE 0
         /\ unsat_pct' = IF e = "" THEN p ELSE Zero
         /\ alerts' = IF e = "" THEN FirstAlerts(avg_rating, p) ELSE alerts
    /\ UNCHANGED <<storeVars, scriptVars, caller, total, avg_rating, cut, segs, prev>>

\* compute_rfm_segments line 66, called from check_alerts line 121
check_alerts_percentiles ==
    /\ pc = "percentiles"
    /\ caller = "check_alerts"
    /\ log' = Append(log, "percentiles")
    /\ \E o \in Outcomes :
         LET x == Propagate(o, alerts) IN
         /\ pc' = IF o = "answered" THEN "segments" ELSE x.pc
         /\ err' = IF o = "answered" THEN "" ELSE x.err
         /\ out_alerts' = IF o = "answered" THEN None ELSE x.out
         /\ cut' = IF o = "answered" THEN get_percentiles ELSE AllNull
    /\ UNCHANGED <<storeVars, scriptVars, caller, total, avg_rating, unsat,
                   unsat_pct, alerts, segs, prev>>

\* compute_rfm_segments line 66, called from the page at line 176
dashboard_percentiles ==
    /\ pc = "idle"
    /\ caller' = "dashboard"
    /\ log' = <<"percentiles">>
    /\ \E o \in Outcomes :
         /\ pc' = IF o = "answered" THEN "segments" ELSE "raised"
         /\ err' = IF o = "answered" THEN "" ELSE o
         /\ cut' = IF o = "answered" THEN get_percentiles ELSE AllNull
    /\ total' = 0 /\ avg_rating' = 0 /\ unsat' = 0 /\ unsat_pct' = Zero
    /\ alerts' = <<>> /\ segs' = NoSegs /\ out_alerts' = None
    /\ UNCHANGED <<storeVars, scriptVars, prev>>

\* variant that adds the counts to those of the preceding run
SegmentsResultAdded(b) ==
    IF prev = None THEN b ELSE [l \in Labels |-> prev[1][l] + b[l]]
\* line 105: return {b["key"]: b["doc_count"] for b in buckets}
SegmentsResult(b) == b

\* compute_rfm_segments lines 71-105: the script is built from the cut
\* set and pushed down; check_alerts then applies its third rule and
\* returns (lines 122-126).
rfm_segments ==
    /\ pc = "segments"
    /\ log' = Append(log, "segments")
    /\ \E o \in Outcomes :
         LET compiled == ScriptCompiles(cut)
             rule == AtRiskRule(segs'["At Risk"], total)
             e == IF o # "answered" THEN o
                  ELSE IF ~compiled THEN "RequestError"
                  ELSE IF caller = "check_alerts" /\ rule.raised
                       THEN "ZeroDivisionError" ELSE ""
             x == Propagate(e, alerts)
             all == alerts \o (IF rule.fire THEN <<"Large At-Risk group">> ELSE <<>>)
         IN
         /\ segs' = IF o = "answered" /\ compiled
                    THEN SegmentsResult(TermsBuckets(docs, cut)) ELSE NoSegs
         /\ IF caller = "check_alerts"
            THEN /\ pc' = IF e = "" THEN "done" ELSE x.pc
                 /\ err' = IF e = "" THEN "" ELSE x.err
                 /\ alerts' = IF e = "" THEN all ELSE alerts
                 /\ out_alerts' = IF e = "" THEN Some(all) ELSE x.out
            ELSE /\ pc' = IF e = "" THEN "done" ELSE "raised"
                 /\ err' = e
                 /\ UNCHANGED <<alerts, out_alerts>>
    /\ UNCHANGED <<storeVars, scriptVars, caller, total, avg_rating, unsat,
                   unsat_pct, cut, prev>>

\* The page script ends (line 179, or the exception ends it): its variables
\* are gone; prev keeps what the segment chart showed.
page_ends ==
    /\ pc \in {"done", "raised"}
    /\ prev' = IF pc = "done" /\ caller = "dashboard" THEN Some(segs) ELSE None
    /\ pc' = "idle" /\ caller' = "" /\ total' = 0 /\ avg_rating' = 0 /\ unsat' = 0
    /\ unsat_pct' = Zero /\ alerts' = <<>> /\ cut' = AllNull /\ segs' = NoSegs
    /\ err' = "" /\ log' = <<>> /\ out_alerts' = None
    /\ UNCHANGED <<storeVars, scriptVars>>

-----------------------------------------------------------------------------
(* The store's other clients: documents are indexed and deleted.           *)

\* bags of at most n documents of the kinds K
BagsUpTo(K, n) ==
    LET RECURSIVE B(_, _)
        B(S, m) ==
            IF S = {} THEN {EmptyBag}
            ELSE LET k == CHOOSE x \in S : TRUE
                 IN UNION {{IF c = 0 THEN b ELSE b (+) [x \in {k} |-> c]
                              : b \in B(S \ {k}, m - c)} : c \in 0..m}
    IN B(K, n)

IndexDoc(K, n) ==
    /\ BagCardinality(docs) < n
    /\ \E d \in K :
         /\ docs' = docs (+) SetToBag({d})
         /\ pct' \in PctFor(docs')
    /\ prev' = None
    /\ UNCHANGED <<avgRating, localVars, scriptVars>>

DeleteDoc ==
    /\ \E d \in BagToSet(docs) :
         /\ docs' = docs (-) SetToBag({d})
         /\ pct' \in PctFor(docs')
    /\ prev' = None
    /\ UNCHANGED <<avgRating, localVars, scriptVars>>

-----------------------------------------------------------------------------
(* Specifications *)

NoProbe == [doc |-> [r |-> 1, f |-> 1, m |-> 1],
            cut |-> [k \in Metrics |-> [i \in 1..4 |-> 1]]]
NotScored == [R |-> 0, F |-> 0, M |-> 0, code |-> 0, label |-> ""]

Idle ==
    /\ pc = "idle" /\ caller = "" /\ total = 0 /\ avg_rating = 0 /\ unsat = 0
    /\ unsat_pct = Zero /\ alerts = <<>> /\ cut = AllNull /\ segs = NoSegs
    /\ err = "" /\ log = <<>> /\ out_alerts = None /\ prev = None

\* documents of the small stores: low (1) or high (2) on each metric
FieldDocs == [r : {1, 2}, f : {1, 2}, m : {1, 2}, unsat : {FALSE}]

\* documents of the alert stores: recent or not, unsatisfied or not
AlertDocs == {[r |-> 1, f |-> 1, m |-> 1, unsat |-> FALSE],
              [r |-> 1, f |-> 1, m |-> 1, unsat |-> TRUE],
              [r |-> 2, f |-> 1, m |-> 1, unsat |-> FALSE]}

\* average ratings 3.20, 3.50 and 4.10, and no rating at all
AvgValues == {None, Some(320), Some(350), Some(410)}

\* Spec: the page's segment run (line 176) on small stores written between
\* runs.
Init ==
    /\ docs \in BagsUpTo(FieldDocs, MaxDocs)
    /\ pct \in PctFor(docs)
    /\ avgRating = None
    /\ Idle
    /\ probe = NoProbe /\ scored = NotScored

Next ==
    \/ dashboard_percentiles
    \/ rfm_segments
    \/ page_ends
    \/ pc = "idle" /\ IndexDoc(FieldDocs, MaxDocs)
    \/ pc = "idle" /\ DeleteDoc

Spec == Init /\ [][Next]_vars

\* SpecAlerts: check_alerts on stores that nobody writes meanwhile, up to
\* MaxTotal documents and just past the hit-tracking limit.
BigBags == {[x \in {d} |-> TrackTotalHits + 1] : d \in AlertDocs}

InitAlerts ==
    /\ docs \in BagsUpTo(AlertDocs, MaxTotal) \cup BigBags
    /\ pct \in PctFor(docs)
    /\ avgRating \in AvgValues
    /\ Idle
    /\ probe = NoProbe /\ scored = NotScored

NextAlerts ==
    \/ check_alerts_total
    \/ check_alerts_avg_rating
    \/ check_alerts_unsatisfied
    \/ check_alerts_percentiles
    \/ rfm_segments
    \/ page_ends

SpecAlerts == InitAlerts /\ [][NextAlerts]_vars

\* SpecRace: check_alerts while other clients write the store.
InitRace ==
    /\ docs \in BagsUpTo(AlertDocs, MaxRaceDocs)
    /\ pct \in PctFor(docs)
    /\ avgRating \in AvgValues
    /\ Idle
    /\ probe = NoProbe /\ scored = NotScored

NextRace ==
    \/ check_alerts_total
    \/ check_alerts_avg_rating
    \/ check_alerts_unsatisfied
    \/ check_alerts_percentiles
    \/ rfm_segments
    \/ page_ends
    \/ IndexDoc(AlertDocs, MaxRaceDocs)
    \/ DeleteDoc

SpecRace == InitRace /\ [][NextRace]_vars

\* SpecScript: the script evaluated on one document.
RawDocs == [r : 1..MaxRaw, f : 1..MaxRaw, m : 1..MaxRaw]
CutSets == [r : CutTuples(1, MaxCut), f : CutTuples(1, MaxCut),
            m : CutTuples(1, MaxCut)]

InitScript ==
    /\ docs = EmptyBag /\ pct = AllNull /\ avgRating = None
    /\ Idle
    /\ probe \in [doc : RawDocs, cut : CutSets]
    /\ scored = NotScored

RunScript ==
    /\ scored = NotScored
    /\ scored' = Script(probe.doc, probe.cut)
    /\ UNCHANGED <<storeVars, localVars, prev, probe>>

NextScript == RunScript

SpecScript == InitScript /\ [][NextScript]_vars

-----------------------------------------------------------------------------
(* Claims *)

Ran == scored # NotScored
IsPrefix(a, b) == Len(a) <= Len(b) /\ SubSeq(b, 1, Len(a)) = a
AlertsReturned == pc = "done" /\ caller = "check_alerts"
SegmentsReturned == pc = "done" /\ caller = "dashboard"

\* C1: when check_alerts has read the total (agg_total_customers) and the
\* segment distribution from the same, unwritten store, the counts of the
\* distribution sum to that total.
C1_CountsSumToTotal ==
    AlertsReturned => SumCounts(segs) = total

\* C2: the label of every (R, F, M) is the label of the first rule, in the
\* stated order, whose condition holds; code 555 is Champions.
RuleLabels == <<"Champions", "Loyal Customers", "Frequent Buyers", "Big Spenders",
                "Potential Loyalists", "At Risk", "Hibernating">>
RuleHolds(i, R, F, M) ==
    CASE i = 1 -> 100 * R + 10 * F + M >= 544
      [] i = 2 -> R = 5 \/ (R = 4 /\ F >= 4)
      [] i = 3 -> F = 5
      [] i = 4 -> M = 5
      [] i = 5 -> R >= 4 /\ F <= 2
      [] i = 6 -> R = 2
      [] OTHER -> TRUE
FirstRule(R, F, M) ==
    CHOOSE i \in 1..7 : RuleHolds(i, R, F, M)
                        /\ \A j \in 1..(i - 1) : ~RuleHolds(j, R, F, M)
C2_FirstMatchWins ==
    Ran => /\ scored.label = RuleLabels[FirstRule(scored.R, scored.F, scored.M)]
           /\ (scored.R = 5 /\ scored.F = 5 /\ scored.M = 5
                 => scored.label = "Champions")
C2_Witness ==
    Ran /\ scored.code = 555 /\ scored.label = "Champions"

\* C3: a recency equal to the 20th-percentile recency cut point scores
\* R = 5.
C3_TieAtP20IsFive ==
    Ran /\ probe.doc.r = probe.cut.r[1] => scored.R = 5
C3_Witness ==
    /\ Ran /\ probe.doc.r = probe.cut.r[1] /\ probe.cut.r[1] < probe.cut.r[2]
    /\ scored.R = 5

\* C4: the sub-scores are in 1..5; a larger recency never scores a larger
\* R, a larger frequency or spend never scores a smaller F or M.
C4_ScoresMonotone ==
    Ran =>
      /\ scored.R \in 1..5 /\ scored.F \in 1..5 /\ scored.M \in 1..5
      /\ \A b \in 1..MaxRaw :
           /\ probe.doc.r <= b => scored.R >= RScore(b, probe.cut.r)
           /\ probe.doc.f <= b => scored.F <= FScore(b, probe.cut.f)
           /\ probe.doc.m <= b => scored.M <= MScore(b, probe.cut.m)
C4_Witness ==
    /\ Ran /\ probe.doc.r = 1 /\ probe.doc.f = 1 /\ probe.doc.m = 1
    /\ scored.R = 5 /\ RScore(MaxRaw, probe.cut.r) = 1
    /\ scored.F = 1 /\ FScore(MaxRaw, probe.cut.f) = 5
    /\ scored.M = 1 /\ MScore(MaxRaw, probe.cut.m) = 5

\* C5: with a total of 0, check_alerts raises no division error and fires
\* neither the unsatisfied-rate nor the At-Risk alert, whatever the
\* unsatisfied and At Risk counts are.
Fired(t) == \E i \in 1..Len(alerts) : alerts[i] = t
C5_ZeroTotalGuarded ==
    caller = "check_alerts" /\ total = 0 =>
      /\ err # "ZeroDivisionError"
      /\ ~Fired("High unsatisfied rate")
      /\ ~Fired("Large At-Risk group")
C5_Witness ==
    /\ AlertsReturned /\ total = 0 /\ unsat > 0 /\ segs["At Risk"] > 0
    /\ out_alerts # None

\* C6: check_alerts returns exactly the rules whose condition holds, in the
\* order low rating, unsatisfied rate, At-Risk group.
Titles == <<"Low average rating", "High unsatisfied rate", "Large At-Risk group">>
Condition(t) ==
    CASE t = "Low average rating" ->
            (IF avgRating = None THEN 0 ELSE avgRating[1]) < 350
      [] t = "High unsatisfied rate" ->
            total > 0 /\ unsat * 100 > 10 * total
      [] OTHER ->
            total > 0 /\ segs["At Risk"] * 100 > 15 * total
C6_AlertsAreTheRulesThatHold ==
    AlertsReturned => out_alerts = Some(SelectSeq(Titles, Condition))
C6_Witness ==
    /\ AlertsReturned /\ out_alerts = Some(Titles)
    /\ avg_rating = 320 /\ total = 20 /\ unsat = 3 /\ segs["At Risk"] = 4

C8_MissingCutTolerated ==
    caller = "dashboard" /\ log = <<"percentiles", "segments">> /\ HasNone(cut)
       /\ err # "RetrievalFailure"
    => pc = "done"

\* C9: check_alerts returns a list only when all five queries were
\* answered; the queries are issued once each, in order; after a failure
\* no further query is issued and nothing is returned.
C9_FailurePropagates ==
    /\ [](caller = "check_alerts" =>
            /\ IsPrefix(log, QueryOrder)
            /\ (out_alerts # None => log = QueryOrder /\ err = "" /\ pc = "done")
            /\ (pc = "raised" => out_alerts = None /\ err # ""))
    /\ [][pc = "raised" => log' = log \/ pc' = "idle"]_vars
C9_Witness ==
    /\ caller = "check_alerts" /\ pc = "raised" /\ err = "RetrievalFailure"
    /\ log = SubSeq(QueryOrder, 1, 4) /\ alerts # <<>> /\ out_alerts = None

\* C10 as stated: a value equal to a boundary scores the lower of the two
\* scores the boundary separates, in every dimension.
C10_TiesScoreLow ==
    Ran =>
      \A i \in 1..4 :
        LET above(c) == i = 1 \/ c[i - 1] < c[i] IN
        /\ probe.doc.r = probe.cut.r[i] /\ above(probe.cut.r) => scored.R = 5 - i
        /\ probe.doc.f = probe.cut.f[i] /\ above(probe.cut.f) => scored.F = i
        /\ probe.doc.m = probe.cut.m[i] /\ above(probe.cut.m) => scored.M = i
\* C10 amended: a value equal to a boundary falls on the <= side of it,
\* which is the lower score for F and M and the higher score for R.
C10_TiesFallBelowBoundary ==
    Ran =>
      \A i \in 1..4 :
        LET above(c) == i = 1 \/ c[i - 1] < c[i] IN
        /\ probe.doc.r = probe.cut.r[i] => scored.R >= 6 - i
        /\ probe.doc.f = probe.cut.f[i] => scored.F <= i
        /\ probe.doc.m = probe.cut.m[i] => scored.M <= i
        /\ probe.doc.r = probe.cut.r[i] /\ above(probe.cut.r) => scored.R = 6 - i
        /\ probe.doc.f = probe.cut.f[i] /\ above(probe.cut.f) => scored.F = i
        /\ probe.doc.m = probe.cut.m[i] /\ above(probe.cut.m) => scored.M = i
C10_Witness ==
    /\ Ran /\ probe.doc.r = probe.cut.r[4] /\ probe.cut.r[3] < probe.cut.r[4]
    /\ scored.R = 2
    /\ probe.doc.f = probe.cut.f[4] /\ probe.cut.f[3] < probe.cut.f[4]
    /\ scored.F = 4

====
